---- MODULE Spec2Model ----
(***************************************************************************)
(* Model of the AQL parser driver (arangod/Aql/Parser.cpp): parse(), the   *)
(* write-query validator configureWriteQuery(), the parser's value stack   *)
(* and the positioned error diagnostics of registerParseError().           *)
(***************************************************************************)
EXTENDS Integers, Sequences, FiniteSets, TLC

(***************************************************************************)
(* Bounds of the model.                                                    *)
(***************************************************************************)
MaxCalls == 2
MaxScopes == 2
MaxStack == 2
MaxColumn == 9
LongQueryLength == 520
LongDataLength == 488
MaxRegion == 4
MaxMembers == 2
MaxArrayLength == 2
MaxElement == 1

\* sizeof(buffer) in Parser::registerParseError
SizeofBuffer == 512

(***************************************************************************)
(* Query types, scope types, error codes.                                  *)
(***************************************************************************)
AQL_QUERY_READ == "READ"

WriteTypes == {"INSERT", "UPDATE", "REMOVE", "REPLACE", "UPSERT"}

AQL_SCOPE_MAIN == "MAIN"

AQL_SCOPE_SUBQUERY == "SUBQUERY"

TRI_ERROR_QUERY_MODIFY_IN_SUBQUERY == "QUERY_MODIFY_IN_SUBQUERY"

TRI_ERROR_QUERY_MULTI_MODIFY == "QUERY_MULTI_MODIFY"

TRI_ERROR_QUERY_COMPILE_TIME_OPTIONS == "QUERY_COMPILE_TIME_OPTIONS"

TRI_ERROR_QUERY_PARSE == "QUERY_PARSE"

TRI_ERROR_OUT_OF_MEMORY == "OUT_OF_MEMORY"

\* nullptr, for node pointers and for the exception in flight
Null == "null"

\* the collection nodes a write clause can name
CollectionNodes == {"c", "d"}

\* the option nodes of a write clause: absent, a constant or a non-constant expression
OptionNodes == {Null, "constOptions", "dynOptions"}

\* the opaque values the grammar keeps on the parser's stack
StackValues == {"v1", "v2"}

NoCall == [made |-> FALSE]

NoResult == "none"

NoDiag == [state |-> "none"]

NODE_TYPE_LIST == "NODE_TYPE_LIST"

NODE_TYPE_ARRAY == "NODE_TYPE_ARRAY"

NODE_TYPE_VALUE == "NODE_TYPE_VALUE"

NODE_TYPE_ARRAY_ELEMENT == "NODE_TYPE_ARRAY_ELEMENT"

\* the Ast nodes the grammar keeps on the parser's stack while a literal is open
AstNodes == {"list1", "array1", "value1"}

\* AstNode::type
NodeType(node) ==
  IF node = "list1" THEN NODE_TYPE_LIST
  ELSE IF node = "array1" THEN NODE_TYPE_ARRAY
  ELSE NODE_TYPE_VALUE

\* the nodes given to pushList and pushArray, and the attribute names given to pushArray
MemberNodes == {"a", "b"}

AttributeNames == {"k", "l"}

NoMembers == [n \in AstNodes |-> <<>>]

NoHook == [tick |-> 0, op |-> "none", arg |-> Null, ret |-> Null]

NoCompare == [state |-> "none"]

VARIABLES
  pc,              \* position of parse(): created, grammar, destroy, catch, endscope, assemble, returned, raised, abort
  aqlparse,        \* how the grammar run ended: pending, ok, fail, throw
  exception,       \* the exception in flight or raised, Null if none
  scannerInits,    \* number of Aqllex_init calls
  scannerDestroys, \* number of Aqllex_destroy calls
  scopes,          \* the Ast's scope stack, a sequence of scope types
  stack,           \* Parser::_stack
  queryType,       \* Query::_type
  writeCollection, \* the Ast's write collection node
  errors,          \* the Query's error sink, in registration order
  result,          \* the QueryResult parse() returned, NoResult if none
  reads,           \* which parts of the result were read from the Query and the Ast
  asserted,        \* the conditions parse() asserted at completion
  nCalls,          \* number of configureWriteQuery calls made
  nOutside,        \* number of those made outside a subquery
  firstWrite,      \* arguments of the first call made outside a subquery
  lastCall,        \* the most recent configureWriteQuery call and its outcome
  diag,            \* the registerParseError call under way: its arguments, then what it built
  members,         \* AstNode::members of the nodes of AstNodes
  hook,            \* the most recent stack hook called: its name, argument and returned value
  cmp              \* the RocksDBKeyComparator::Compare call: its arguments, then its results

vars == <<pc, aqlparse, exception, scannerInits, scannerDestroys, scopes, stack,
          queryType, writeCollection, errors, result, reads, asserted,
          nCalls, nOutside, firstWrite, lastCall, diag, members, hook, cmp>>

parseVars == <<pc, aqlparse, exception, scannerInits, scannerDestroys, result, reads, asserted>>

callVars == <<nCalls, nOutside, firstWrite, lastCall, diag>>

queryVars == <<queryType, writeCollection, errors>>

hookVars == <<members, hook, cmp>>

(***************************************************************************)
(* The collaborators of the parser: scopes, Ast and Query.                 *)
(***************************************************************************)
\* Scopes::start
ScopesStart(s, type) == Append(s, type)

\* Scopes::endCurrent
ScopesEndCurrent(s) == SubSeq(s, 1, Len(s) - 1)

\* Scopes::numActive
numActive(s) == Len(s)

\* Ast::isInSubQuery: the active scope is a subquery
isInSubQuery(s) == Len(s) > 0 /\ s[Len(s)] = AQL_SCOPE_SUBQUERY

\* AstNode::isConstant
isConstant(node) == node = "constOptions"

\* Query::registerError: the error is added to the query's error sink
QueryRegisterError(errs, code, details) == Append(errs, [code |-> code, details |-> details])

\* Parser::registerError
registerError(errs, code, data) == QueryRegisterError(errs, code, data)

(***************************************************************************)
(* Parser::configureWriteQuery on q = [scopes, type, writeCollection,      *)
(* errors]; the result is q after the call plus the value returned.        *)
(***************************************************************************)
\* the call returns false after registering `code`
Refuse(q, code) ==
  [ret |-> FALSE,
   type |-> q.type,
   writeCollection |-> q.writeCollection,
   errors |-> QueryRegisterError(q.errors, code, <<>>)]

RecordWriteOptionErrorFails(q, type, collectionNode, optionNode) ==
  IF optionNode # Null /\ ~isConstant(optionNode)
  THEN [ret |-> FALSE,
        type |-> q.type,
        writeCollection |-> collectionNode,
        errors |-> QueryRegisterError(q.errors, TRI_ERROR_QUERY_COMPILE_TIME_OPTIONS, <<>>)]
  ELSE [ret |-> TRUE,
        type |-> type,
        writeCollection |-> collectionNode,
        errors |-> q.errors]

RecordWriteFixedType(q, type, collectionNode, optionNode) ==
  [ret |-> TRUE,
   type |-> "INSERT",
   writeCollection |-> collectionNode,
   errors |-> IF optionNode # Null /\ ~isConstant(optionNode)
              THEN QueryRegisterError(q.errors, TRI_ERROR_QUERY_COMPILE_TIME_OPTIONS, <<>>)
              ELSE q.errors]

\* lines 98-107: track the collection, check the options, register the type
RecordWrite(q, type, collectionNode, optionNode) ==
  [ret |-> TRUE,
   type |-> type,
   writeCollection |-> collectionNode,
   errors |-> IF optionNode # Null /\ ~isConstant(optionNode)
              THEN QueryRegisterError(q.errors, TRI_ERROR_QUERY_COMPILE_TIME_OPTIONS, <<>>)
              ELSE q.errors]

SubQueryCheckAfterTracking(q, type, collectionNode, optionNode) ==
  [ret |-> FALSE,
   type |-> q.type,
   writeCollection |-> collectionNode,
   errors |-> QueryRegisterError(q.errors, TRI_ERROR_QUERY_MODIFY_IN_SUBQUERY, <<>>)]

\* lines 82-87: data modification is not allowed in subqueries
InSubQueryBranch(q, type, collectionNode, optionNode) ==
  Refuse(q, TRI_ERROR_QUERY_MODIFY_IN_SUBQUERY)

MultiModifyOverwrites(q, type, collectionNode, optionNode) ==
  [ret |-> FALSE,
   type |-> type,
   writeCollection |-> collectionNode,
   errors |-> QueryRegisterError(q.errors, TRI_ERROR_QUERY_MULTI_MODIFY, <<>>)]

\* lines 89-96: a query cannot have two data-modification operations
MultiModifyBranch(q, type, collectionNode, optionNode) ==
  Refuse(q, TRI_ERROR_QUERY_MULTI_MODIFY)

configureWriteQueryNoTypeCheck(q, type, collectionNode, optionNode) ==
  IF isInSubQuery(q.scopes)
  THEN InSubQueryBranch(q, type, collectionNode, optionNode)
  ELSE RecordWrite(q, type, collectionNode, optionNode)

configureWriteQueryTypeCheckFirst(q, type, collectionNode, optionNode) ==
  IF q.type # AQL_QUERY_READ
  THEN MultiModifyBranch(q, type, collectionNode, optionNode)
  ELSE IF isInSubQuery(q.scopes)
       THEN InSubQueryBranch(q, type, collectionNode, optionNode)
       ELSE RecordWrite(q, type, collectionNode, optionNode)

configureWriteQuery(q, type, collectionNode, optionNode) ==
  IF isInSubQuery(q.scopes)
  THEN InSubQueryBranch(q, type, collectionNode, optionNode)
  ELSE IF q.type # AQL_QUERY_READ
       THEN MultiModifyBranch(q, type, collectionNode, optionNode)
       ELSE RecordWrite(q, type, collectionNode, optionNode)

WriteClauseEndsRunOnError(q, r) ==
  IF Len(r.errors) > Len(q.errors) THEN "catch" ELSE "grammar"

\* lines 86, 95, 107: configureWriteQuery returns to the grammar run, whatever it registered
WriteClauseReturnsTo(q, r) == "grammar"

(***************************************************************************)
(* The parser's stack.                                                     *)
(***************************************************************************)
\* Parser::pushStack
pushStack(s, value) == Append(s, value)

popStackFromFront(s) == [value |-> s[1], stack |-> Tail(s)]

\* Parser::popStack: the value returned and the stack left
popStack(s) == [value |-> s[Len(s)], stack |-> SubSeq(s, 1, Len(s) - 1)]

\* Parser::peekStack
peekStack(s) == s[Len(s)]

\* TRI_ASSERT(! _stack.empty()) of popStack and peekStack: a failed assertion ends the program
StackNotEmpty(s) == s # <<>>

\* AstNode::addMember: the member is added after the members the node has
addMember(mem, node, member) == [mem EXCEPT ![node] = Append(@, member)]

\* Ast::createNodeArrayElement: a named element wrapping the node
createNodeArrayElement(attributeName, node) ==
  [type |-> NODE_TYPE_ARRAY_ELEMENT, name |-> attributeName, value |-> node]

pushListToBottom(s, mem, node) ==
  IF ~StackNotEmpty(s) THEN [failed |-> TRUE, members |-> mem]
  ELSE LET list == s[1]
       IN IF NodeType(list) # NODE_TYPE_LIST THEN [failed |-> TRUE, members |-> mem]
          ELSE [failed |-> FALSE, members |-> addMember(mem, list, node)]

\* Parser::pushList: whether an assertion failed, and the members of the nodes after the call
pushList(s, mem, node) ==
  IF ~StackNotEmpty(s) THEN [failed |-> TRUE, members |-> mem]
  ELSE LET list == peekStack(s)
       IN IF NodeType(list) # NODE_TYPE_LIST THEN [failed |-> TRUE, members |-> mem]
          ELSE [failed |-> FALSE, members |-> addMember(mem, list, node)]

pushArrayReplacesSameName(s, mem, attributeName, node) ==
  IF ~StackNotEmpty(s) THEN [failed |-> TRUE, members |-> mem]
  ELSE LET array == peekStack(s)
           element == createNodeArrayElement(attributeName, node)
           present == {k \in 1..Len(mem[array]) : mem[array][k].name = attributeName}
       IN IF NodeType(array) # NODE_TYPE_ARRAY THEN [failed |-> TRUE, members |-> mem]
          ELSE IF present # {}
               THEN [failed |-> FALSE,
                     members |-> [mem EXCEPT ![array] =
                                    [k \in 1..Len(@) |-> IF k \in present THEN element ELSE @[k]]]]
               ELSE [failed |-> FALSE, members |-> addMember(mem, array, element)]

\* Parser::pushArray: whether an assertion failed, and the members of the nodes after the call
pushArray(s, mem, attributeName, node) ==
  IF ~StackNotEmpty(s) THEN [failed |-> TRUE, members |-> mem]
  ELSE LET array == peekStack(s)
           element == createNodeArrayElement(attributeName, node)
       IN IF NodeType(array) # NODE_TYPE_ARRAY THEN [failed |-> TRUE, members |-> mem]
          ELSE [failed |-> FALSE, members |-> addMember(mem, array, element)]


(***************************************************************************)
(* Text: a C string is the sequence of its characters.                     *)
(***************************************************************************)
Fill(ch, n) == [k \in 1..n |-> ch]

Take(text, n) == IF Len(text) <= n THEN text ELSE SubSeq(text, 1, n)

Drop(text, n) == IF Len(text) <= n THEN <<>> ELSE SubSeq(text, n + 1, Len(text))

DigitChars == <<"0", "1", "2", "3", "4", "5", "6", "7", "8", "9">>

RECURSIVE DecDigits(_)
DecDigits(n) == IF n < 10 THEN <<DigitChars[n + 1]>>
                ELSE Append(DecDigits(n \div 10), DigitChars[(n % 10) + 1])

\* the %d conversion of snprintf
FormatInt(n) == IF n < 0 THEN <<"-">> \o DecDigits(0 - n) ELSE DecDigits(n)

\* snprintf into a buffer of `size` bytes: at most size - 1 characters are stored
Snprintf(size, text) == Take(text, size - 1)

\* the positions of the line ends of a text
LineEnds(text) == {i \in 1..Len(text) : text[i] = "\n"}

\* the position of the k-th line end, 0 for k = 0
LineEnd(text, k) ==
  IF k = 0 THEN 0
  ELSE CHOOSE i \in LineEnds(text) : Cardinality({j \in LineEnds(text) : j <= i}) = k

NumLines(text) == Cardinality(LineEnds(text)) + 1

\* the length of a line, without its line end (lines start at 1)
LineLength(text, line) ==
  (IF line < NumLines(text) THEN LineEnd(text, line) - 1 ELSE Len(text)) - LineEnd(text, line - 1)

\* the offset of line:column in the query text (lines start at 1, columns at 0):
\* a column past the end of its line stops at the start of the next line
RegionOffset(text, line, column) ==
  IF line > NumLines(text) THEN Len(text)
  ELSE LET start == LineEnd(text, line - 1)
           stop == IF line < NumLines(text) THEN LineEnd(text, line) ELSE Len(text)
       IN IF start + column < stop THEN start + column ELSE stop

\* Query::extractRegion: a bounded part of the query text starting where the error happened
extractRegion(queryString, line, column) ==
  Take(Drop(queryString, RegionOffset(queryString, line, column)), MaxRegion)

(***************************************************************************)
(* Parser::registerParseError(errorCode, data, line, column).              *)
(***************************************************************************)
ArrowPointerTwoCarets(column) == Fill(" ", column) \o <<"^", "^">>

\* lines 181-194: the pointer to the location of the error
ArrowPointer(column) ==
  LET spaces == Fill(" ", column)               \* the loop leaves i = column
      marked == IF column > 0
                THEN [spaces EXCEPT ![column] = "^"]   \* i--; arrowpointer[i++] = '^'
                ELSE spaces
  IN marked \o <<"^", "^">>

NearText == <<" ", "n", "e", "a", "r", " ", "'">>

AtPositionText == <<"'", " ", "a", "t", " ", "p", "o", "s", "i", "t", "i", "o", "n", " ">>

DiagnosticTextColumnAsIs(data, region, line, column, queryString, arrowpointer) ==
  data \o NearText \o region \o AtPositionText \o FormatInt(line) \o <<":">>
       \o FormatInt(column) \o <<":", "\n">> \o queryString \o <<"\n">>
       \o arrowpointer \o <<"\n">>

\* lines 197-207: "%s near '%s' at position %d:%d:\n%s\n%s\n"
DiagnosticText(data, region, line, column, queryString, arrowpointer) ==
  data \o NearText \o region \o AtPositionText \o FormatInt(line) \o <<":">>
       \o FormatInt(column + 1) \o <<":", "\n">> \o queryString \o <<"\n">>
       \o arrowpointer \o <<"\n">>

\* what the call builds: the region, the arrow line and the buffer it registers
registerParseError(queryString, data, line, column) ==
  LET region == extractRegion(queryString, line, column)
      arrowpointer == ArrowPointer(column)
  IN [region |-> region,
      arrowpointer |-> arrowpointer,
      buffer |-> Snprintf(SizeofBuffer,
                          DiagnosticText(data, region, line, column, queryString, arrowpointer))]

(***************************************************************************)
(* The inputs of the diagnostics: query texts, messages, error positions.  *)
(***************************************************************************)
QueryTexts ==
  {<<"F", "O", "R", " ", "x", " ", "I", "N">>,
   <<"R", "E", "T", "U", "R", "N", "\n", "1", " ", "+">>,
   Fill("a", LongQueryLength)}

Messages ==
  {<<"s", "y", "n", "t", "a", "x", " ", "e", "r", "r", "o", "r">>,
   <<"u", "n", "e", "x", "p", "e", "c", "t", "e", "d", " ", "e", "n", "d">>,
   Fill("m", LongDataLength)}

\* positions the scanner can report for a text: on one of its lines, up to the line's end
Positions(text) ==
  {p \in (1..NumLines(text)) \X (0..Len(text)) :
     /\ p[2] <= LineLength(text, p[1])
     /\ (p[2] <= MaxColumn \/ p[2] = LineLength(text, p[1]))}

DiagInputs ==
  UNION {{[state |-> "called", queryString |-> q, data |-> d, line |-> p[1], column |-> p[2]] :
            d \in Messages, p \in Positions(q)} : q \in QueryTexts}

(***************************************************************************)
(* Initial state: a Parser constructed for a Query, parse() not yet called.*)
(***************************************************************************)
Init ==
  /\ pc = "created"
  /\ aqlparse = "pending"
  /\ exception = Null
  /\ scannerInits = 0
  /\ scannerDestroys = 0
  /\ scopes = <<>>
  /\ stack = <<>>
  /\ queryType = AQL_QUERY_READ
  /\ writeCollection = Null
  /\ errors = <<>>
  /\ result = NoResult
  /\ reads = {}
  /\ asserted = {}
  /\ nCalls = 0
  /\ nOutside = 0
  /\ firstWrite = Null
  /\ lastCall = NoCall
  /\ diag = NoDiag
  /\ members = NoMembers
  /\ hook = NoHook
  /\ cmp = NoCompare

(***************************************************************************)
(* Parser::parse, step by step.                                            *)
(***************************************************************************)
\* lines 115-120: start the main scope, set up the scanner, enter the try block
ParseStart ==
  /\ pc = "created"
  /\ scopes' = ScopesStart(scopes, AQL_SCOPE_MAIN)
  /\ scannerInits' = scannerInits + 1
  /\ pc' = "grammar"
  /\ UNCHANGED <<aqlparse, exception, scannerDestroys, stack, result, reads, asserted>>
  /\ UNCHANGED queryVars
  /\ UNCHANGED callVars
  /\ UNCHANGED hookVars

\* the input the grammar accepts is well nested: every composite literal it opened is
\* closed (each push matched by a pop) and every subquery scope it started is ended
WellNested == stack = <<>> /\ numActive(scopes) = 1

\* line 124: Aqlparse returns 0
GrammarAccept ==
  /\ pc = "grammar"
  /\ WellNested
  /\ aqlparse' = "ok"
  /\ pc' = "destroy"
  /\ UNCHANGED <<exception, scannerInits, scannerDestroys, scopes, stack, result, reads, asserted>>
  /\ UNCHANGED queryVars
  /\ UNCHANGED callVars
  /\ UNCHANGED hookVars

GrammarRejectFallsThrough ==
  /\ pc = "grammar"
  /\ aqlparse' = "fail"
  /\ pc' = "destroy"
  /\ UNCHANGED <<exception, scannerInits, scannerDestroys, scopes, stack, result, reads, asserted>>
  /\ UNCHANGED queryVars
  /\ UNCHANGED callVars
  /\ UNCHANGED hookVars

\* lines 124-127: Aqlparse returns non-zero, parse() throws TRI_ERROR_QUERY_PARSE inside the try block
GrammarReject ==
  /\ pc = "grammar"
  /\ aqlparse' = "fail"
  /\ exception' = TRI_ERROR_QUERY_PARSE
  /\ pc' = "catch"
  /\ UNCHANGED <<scannerInits, scannerDestroys, scopes, stack, result, reads, asserted>>
  /\ UNCHANGED queryVars
  /\ UNCHANGED callVars
  /\ UNCHANGED hookVars

\* line 124: an exception leaves Aqlparse
GrammarThrow ==
  /\ pc = "grammar"
  /\ aqlparse' = "throw"
  /\ exception' = TRI_ERROR_OUT_OF_MEMORY
  /\ pc' = "catch"
  /\ UNCHANGED <<scannerInits, scannerDestroys, scopes, stack, result, reads, asserted>>
  /\ UNCHANGED queryVars
  /\ UNCHANGED callVars
  /\ UNCHANGED hookVars

\* line 129: the scanner is destroyed at the end of the try block
ParseDestroy ==
  /\ pc = "destroy"
  /\ scannerDestroys' = scannerDestroys + 1
  /\ pc' = "endscope"
  /\ UNCHANGED <<aqlparse, exception, scannerInits, scopes, stack, result, reads, asserted>>
  /\ UNCHANGED queryVars
  /\ UNCHANGED callVars
  /\ UNCHANGED hookVars

ParseCatchNoDestroy ==
  /\ pc = "catch"
  /\ pc' = "raised"
  /\ UNCHANGED <<aqlparse, exception, scannerInits, scannerDestroys, scopes, stack, result, reads, asserted>>
  /\ UNCHANGED queryVars
  /\ UNCHANGED callVars
  /\ UNCHANGED hookVars

ParseCatchEndsScope ==
  /\ pc = "catch"
  /\ scannerDestroys' = scannerDestroys + 1
  /\ scopes' = ScopesEndCurrent(scopes)
  /\ pc' = "raised"
  /\ UNCHANGED <<aqlparse, exception, scannerInits, stack, result, reads, asserted>>
  /\ UNCHANGED queryVars
  /\ UNCHANGED callVars
  /\ UNCHANGED hookVars

\* lines 131-134: the handler destroys the scanner and rethrows
ParseCatch ==
  /\ pc = "catch"
  /\ scannerDestroys' = scannerDestroys + 1
  /\ pc' = "raised"
  /\ UNCHANGED <<aqlparse, exception, scannerInits, scopes, stack, result, reads, asserted>>
  /\ UNCHANGED queryVars
  /\ UNCHANGED callVars
  /\ UNCHANGED hookVars

ParseEndScopeSkipped ==
  /\ pc = "endscope"
  /\ asserted' = asserted \cup {"numActive"}
  /\ pc' = "assemble"
  /\ UNCHANGED <<aqlparse, exception, scannerInits, scannerDestroys, scopes, stack, result, reads>>
  /\ UNCHANGED queryVars
  /\ UNCHANGED callVars
  /\ UNCHANGED hookVars

\* lines 136-139: end the main scope and assert that no scope is active
ParseEndScope ==
  /\ pc = "endscope"
  /\ scopes' = ScopesEndCurrent(scopes)
  /\ asserted' = asserted \cup {"numActive"}
  /\ pc' = IF numActive(scopes') = 0 THEN "assemble" ELSE "abort"
  /\ UNCHANGED <<aqlparse, exception, scannerInits, scannerDestroys, stack, result, reads>>
  /\ UNCHANGED queryVars
  /\ UNCHANGED callVars
  /\ UNCHANGED hookVars

\* lines 141-146: assemble and return the QueryResult
ParseAssemble ==
  /\ pc = "assemble"
  /\ reads' = {"collectionNames", "bindParameters", "json"}
  /\ result' = "QueryResult"
  /\ pc' = "returned"
  /\ UNCHANGED <<aqlparse, exception, scannerInits, scannerDestroys, scopes, stack, asserted>>
  /\ UNCHANGED queryVars
  /\ UNCHANGED callVars
  /\ UNCHANGED hookVars

(***************************************************************************)
(* The hooks the grammar calls while Aqlparse runs.                        *)
(***************************************************************************)
\* a subquery starts
GrammarStartSubQuery ==
  /\ pc = "grammar"
  /\ Len(scopes) < MaxScopes
  /\ scopes' = ScopesStart(scopes, AQL_SCOPE_SUBQUERY)
  /\ UNCHANGED <<stack>>
  /\ UNCHANGED parseVars
  /\ UNCHANGED queryVars
  /\ UNCHANGED callVars
  /\ UNCHANGED hookVars

\* a subquery ends
GrammarEndSubQuery ==
  /\ pc = "grammar"
  /\ Len(scopes) > 1
  /\ scopes' = ScopesEndCurrent(scopes)
  /\ UNCHANGED <<stack>>
  /\ UNCHANGED parseVars
  /\ UNCHANGED queryVars
  /\ UNCHANGED callVars
  /\ UNCHANGED hookVars

\* a composite literal opens: Parser::pushStack
GrammarPushStack ==
  /\ pc = "grammar"
  /\ Len(stack) < MaxStack
  /\ \E v \in StackValues : stack' = pushStack(stack, v)
  /\ UNCHANGED <<scopes>>
  /\ UNCHANGED parseVars
  /\ UNCHANGED queryVars
  /\ UNCHANGED callVars
  /\ UNCHANGED hookVars

\* a composite literal closes: Parser::popStack
GrammarPopStack ==
  /\ pc = "grammar"
  /\ stack # <<>>
  /\ stack' = popStack(stack).stack
  /\ UNCHANGED <<scopes>>
  /\ UNCHANGED parseVars
  /\ UNCHANGED queryVars
  /\ UNCHANGED callVars
  /\ UNCHANGED hookVars

\* a write clause: Parser::configureWriteQuery
GrammarWriteClause ==
  /\ pc = "grammar"
  /\ nCalls < MaxCalls
  /\ \E type \in WriteTypes, collectionNode \in CollectionNodes, optionNode \in OptionNodes :
       LET q == [scopes |-> scopes, type |-> queryType,
                 writeCollection |-> writeCollection, errors |-> errors]
           r == configureWriteQuery(q, type, collectionNode, optionNode)
           outside == ~isInSubQuery(scopes)
       IN /\ pc' = WriteClauseReturnsTo(q, r)
          /\ queryType' = r.type
          /\ writeCollection' = r.writeCollection
          /\ errors' = r.errors
          /\ nCalls' = nCalls + 1
          /\ nOutside' = IF outside THEN nOutside + 1 ELSE nOutside
          /\ firstWrite' = IF outside /\ nOutside = 0
                           THEN [type |-> type, collectionNode |-> collectionNode]
                           ELSE firstWrite
          /\ lastCall' = [made |-> TRUE,
                          inSubQuery |-> ~outside,
                          type |-> type,
                          collectionNode |-> collectionNode,
                          optionNode |-> optionNode,
                          ret |-> r.ret,
                          typeBefore |-> queryType,
                          typeAfter |-> r.type,
                          writeBefore |-> writeCollection,
                          writeAfter |-> r.writeCollection,
                          registered |-> SubSeq(r.errors, Len(errors) + 1, Len(r.errors))]
  /\ UNCHANGED <<scopes, stack, diag>>
  /\ UNCHANGED <<aqlparse, exception, scannerInits, scannerDestroys, result, reads, asserted>>
  /\ UNCHANGED hookVars

Next ==
  \/ ParseStart
  \/ GrammarAccept
  \/ GrammarReject
  \/ GrammarThrow
  \/ ParseDestroy
  \/ ParseCatch
  \/ ParseEndScope
  \/ ParseAssemble
  \/ GrammarStartSubQuery
  \/ GrammarEndSubQuery
  \/ GrammarPushStack
  \/ GrammarPopStack
  \/ GrammarWriteClause

Spec == Init /\ [][Next]_vars

(***************************************************************************)
(* The diagnostics on their own: the grammar run is under way and calls    *)
(* registerParseError once, with arguments drawn from DiagInputs.          *)
(***************************************************************************)
InitDiag ==
  /\ pc = "grammar"
  /\ aqlparse = "pending"
  /\ exception = Null
  /\ scannerInits = 1
  /\ scannerDestroys = 0
  /\ scopes = <<AQL_SCOPE_MAIN>>
  /\ stack = <<>>
  /\ queryType = AQL_QUERY_READ
  /\ writeCollection = Null
  /\ errors = <<>>
  /\ result = NoResult
  /\ reads = {}
  /\ asserted = {}
  /\ nCalls = 0
  /\ nOutside = 0
  /\ firstWrite = Null
  /\ lastCall = NoCall
  /\ diag \in DiagInputs
  /\ members = NoMembers
  /\ hook = NoHook
  /\ cmp = NoCompare

\* Parser::registerParseError, called by the grammar
GrammarRegisterParseError ==
  /\ pc = "grammar"
  /\ diag.state = "called"
  /\ LET built == registerParseError(diag.queryString, diag.data, diag.line, diag.column)
     IN /\ errors' = registerError(errors, TRI_ERROR_QUERY_PARSE, built.buffer)
        /\ diag' = [state |-> "registered",
                    queryString |-> diag.queryString,
                    data |-> diag.data,
                    line |-> diag.line,
                    column |-> diag.column,
                    region |-> built.region,
                    arrowpointer |-> built.arrowpointer,
                    buffer |-> built.buffer]
  /\ UNCHANGED <<scopes, stack, queryType, writeCollection>>
  /\ UNCHANGED <<nCalls, nOutside, firstWrite, lastCall>>
  /\ UNCHANGED parseVars
  /\ UNCHANGED hookVars

NextDiag == GrammarRegisterParseError

SpecDiag == InitDiag /\ [][NextDiag]_vars

(***************************************************************************)
(* The stack hooks on their own: while Aqlparse runs, the grammar calls    *)
(* pushStack, popStack, peekStack, pushList and pushArray in any order. A  *)
(* failed TRI_ASSERT ends the program (pc = "abort").                      *)
(***************************************************************************)
InitHooks ==
  /\ pc = "grammar"
  /\ aqlparse = "pending"
  /\ exception = Null
  /\ scannerInits = 1
  /\ scannerDestroys = 0
  /\ scopes = <<AQL_SCOPE_MAIN>>
  /\ stack = <<>>
  /\ queryType = AQL_QUERY_READ
  /\ writeCollection = Null
  /\ errors = <<>>
  /\ result = NoResult
  /\ reads = {}
  /\ asserted = {}
  /\ nCalls = 0
  /\ nOutside = 0
  /\ firstWrite = Null
  /\ lastCall = NoCall
  /\ diag = NoDiag
  /\ members = NoMembers
  /\ hook = NoHook
  /\ cmp = NoCompare

\* what no stack hook touches
HookFrame ==
  /\ UNCHANGED <<aqlparse, exception, scannerInits, scannerDestroys, result, reads, asserted>>
  /\ UNCHANGED <<scopes, cmp>>
  /\ UNCHANGED queryVars
  /\ UNCHANGED callVars

Called(op, arg, ret) == [tick |-> 1 - hook.tick, op |-> op, arg |-> arg, ret |-> ret]

\* Parser::pushStack
HookPushStack ==
  /\ pc = "grammar"
  /\ Len(stack) < MaxStack
  /\ \E value \in AstNodes :
       /\ stack' = pushStack(stack, value)
       /\ hook' = Called("pushStack", value, Null)
  /\ UNCHANGED <<pc, members>>
  /\ HookFrame

HookPeekStackPops ==
  /\ pc = "grammar"
  /\ IF StackNotEmpty(stack)
     THEN /\ hook' = Called("peekStack", Null, popStack(stack).value)
          /\ stack' = popStack(stack).stack
          /\ pc' = pc
     ELSE /\ hook' = Called("peekStack", Null, Null)
          /\ stack' = stack
          /\ pc' = "abort"
  /\ UNCHANGED <<members>>
  /\ HookFrame

\* Parser::popStack
HookPopStack ==
  /\ pc = "grammar"
  /\ IF StackNotEmpty(stack)
     THEN /\ hook' = Called("popStack", Null, popStack(stack).value)
          /\ stack' = popStack(stack).stack
          /\ pc' = pc
     ELSE /\ hook' = Called("popStack", Null, Null)
          /\ stack' = stack
          /\ pc' = "abort"
  /\ UNCHANGED <<members>>
  /\ HookFrame

\* Parser::peekStack
HookPeekStack ==
  /\ pc = "grammar"
  /\ IF StackNotEmpty(stack)
     THEN /\ hook' = Called("peekStack", Null, peekStack(stack))
          /\ pc' = pc
     ELSE /\ hook' = Called("peekStack", Null, Null)
          /\ pc' = "abort"
  /\ UNCHANGED <<stack, members>>
  /\ HookFrame

\* Parser::pushList
HookPushList ==
  /\ pc = "grammar"
  /\ \E node \in MemberNodes :
       LET r == pushList(stack, members, node)
       IN /\ \A n \in AstNodes : Len(r.members[n]) <= MaxMembers
          /\ members' = r.members
          /\ pc' = IF r.failed THEN "abort" ELSE pc
          /\ hook' = Called("pushList", node, Null)
  /\ UNCHANGED <<stack>>
  /\ HookFrame

\* Parser::pushArray
HookPushArray ==
  /\ pc = "grammar"
  /\ \E attributeName \in AttributeNames, node \in MemberNodes :
       LET r == pushArray(stack, members, attributeName, node)
       IN /\ \A n \in AstNodes : Len(r.members[n]) <= MaxMembers
          /\ members' = r.members
          /\ pc' = IF r.failed THEN "abort" ELSE pc
          /\ hook' = Called("pushArray", <<attributeName, node>>, Null)
  /\ UNCHANGED <<stack>>
  /\ HookFrame

NextHooks ==
  \/ HookPushStack
  \/ HookPopStack
  \/ HookPeekStack
  \/ HookPushList
  \/ HookPushArray

SpecHooks == InitHooks /\ [][NextHooks]_vars

(***************************************************************************)
(* One call of any operation the grammar can make, from any stack: the     *)
(* stack hooks, configureWriteQuery and registerParseError.                *)
(***************************************************************************)
\* the stacks the grammar can have built
FrameStacks == UNION {[1..n -> AstNodes] : n \in 0..MaxStack}

\* errors at the start of a line of a short query
FrameDiags ==
  {d \in DiagInputs : d.column = 0 /\ Len(d.queryString) < LongQueryLength
                                   /\ Len(d.data) < LongDataLength}

InitFrame ==
  /\ pc = "grammar"
  /\ aqlparse = "pending"
  /\ exception = Null
  /\ scannerInits = 1
  /\ scannerDestroys = 0
  /\ scopes \in {<<AQL_SCOPE_MAIN>>, <<AQL_SCOPE_MAIN, AQL_SCOPE_SUBQUERY>>}
  /\ stack \in FrameStacks
  /\ queryType = AQL_QUERY_READ
  /\ writeCollection = Null
  /\ errors = <<>>
  /\ result = NoResult
  /\ reads = {}
  /\ asserted = {}
  /\ nCalls = 0
  /\ nOutside = 0
  /\ firstWrite = Null
  /\ lastCall = NoCall
  /\ diag \in FrameDiags
  /\ members = NoMembers
  /\ hook = NoHook
  /\ cmp = NoCompare

\* no call has been made yet
NoCallYet == hook.tick = 0 /\ nCalls = 0 /\ diag.state = "called"

NextFrame ==
  \/ NoCallYet /\ HookPushStack
  \/ NoCallYet /\ HookPopStack
  \/ NoCallYet /\ HookPeekStack
  \/ NoCallYet /\ HookPushList
  \/ NoCallYet /\ HookPushArray
  \/ NoCallYet /\ GrammarWriteClause
  \/ NoCallYet /\ GrammarRegisterParseError

SpecFrame == InitFrame /\ [][NextFrame]_vars

(***************************************************************************)
(* RocksDBKeyComparator::Compare (arangod/Indexes/RocksDBKeyComparator.cpp)*)
(* A key is the bytes of an index id followed by an array of values:       *)
(* [prefix |-> bytes, array |-> values].                                   *)
(***************************************************************************)
\* sizeof(TRI_idx_iid_t)
SizeofIdxId == 8

\* index ids: all bytes zero, and ids that differ in the last, the first and a high byte
KeyPrefixes ==
  LET zero == [k \in 1..SizeofIdxId |-> 0]
  IN {zero,
      [zero EXCEPT ![SizeofIdxId] = 1],
      [zero EXCEPT ![1] = 1],
      [zero EXCEPT ![SizeofIdxId] = 200]}

KeyArrays == UNION {[1..n -> 0..MaxElement] : n \in 0..MaxArrayLength}

Keys == {[prefix |-> p, array |-> a] : p \in KeyPrefixes, a \in KeyArrays}

\* the positions at which the first n bytes of two byte strings differ
Differing(a, b, n) == {i \in 1..n : a[i] # b[i]}

Lowest(S) == CHOOSE i \in S : \A j \in S : i <= j

\* memcmp: 0 for equal bytes; otherwise only the sign of the result is fixed, by the first
\* differing bytes taken as unsigned char: the values a C library can return
memcmp(a, b, n) ==
  IF Differing(a, b, n) = {} THEN {0}
  ELSE LET i == Lowest(Differing(a, b, n))
       IN {a[i] - b[i], IF a[i] < b[i] THEN 0 - 1 ELSE 1}

\* VelocyPackHelper::compare on two values
VelocyPackCompare(l, r) == IF l < r THEN 0 - 1 ELSE IF l > r THEN 1 ELSE 0

\* RocksDBKeyComparator::extractKeySlice: the array after the index id
extractKeySlice(slice) == slice.array

CompareLengthsAlwaysLess(lLength, rLength) ==
  IF lLength # rLength THEN 0 - 1 ELSE 0

\* lines 103-107: equal common elements, the shorter array is smaller
CompareLengths(lLength, rLength) ==
  IF lLength # rLength
  THEN (IF lLength < rLength THEN 0 - 1 ELSE 1)
  ELSE 0

RECURSIVE CompareElements(_, _, _, _)
\* lines 89-101: the loop over the common elements, from element i on
CompareElements(lSlice, rSlice, i, n) ==
  IF i > n THEN 0
  ELSE LET res == VelocyPackCompare(lSlice[i], rSlice[i])
       IN IF res # 0 THEN res ELSE CompareElements(lSlice, rSlice, i + 1, n)

CompareArraysFirst(lhs, rhs, res) ==
  LET lSlice == extractKeySlice(lhs)
      rSlice == extractKeySlice(rhs)
      lLength == Len(lSlice)
      rLength == Len(rSlice)
      n == IF lLength < rLength THEN lLength ELSE rLength
      elements == CompareElements(lSlice, rSlice, 1, n)
  IN IF elements # 0 THEN elements
     ELSE IF lLength # rLength THEN CompareLengths(lLength, rLength)
     ELSE res

\* RocksDBKeyComparator::Compare, res being what memcmp returned for the index ids
Compare(lhs, rhs, res) ==
  IF res # 0 THEN res
  ELSE LET lSlice == extractKeySlice(lhs)
           rSlice == extractKeySlice(rhs)
           lLength == Len(lSlice)
           rLength == Len(rSlice)
           n == IF lLength < rLength THEN lLength ELSE rLength
           elements == CompareElements(lSlice, rSlice, 1, n)
       IN IF elements # 0 THEN elements ELSE CompareLengths(lLength, rLength)

InitCompare ==
  /\ pc = "created"
  /\ aqlparse = "pending"
  /\ exception = Null
  /\ scannerInits = 0
  /\ scannerDestroys = 0
  /\ scopes = <<>>
  /\ stack = <<>>
  /\ queryType = AQL_QUERY_READ
  /\ writeCollection = Null
  /\ errors = <<>>
  /\ result = NoResult
  /\ reads = {}
  /\ asserted = {}
  /\ nCalls = 0
  /\ nOutside = 0
  /\ firstWrite = Null
  /\ lastCall = NoCall
  /\ diag = NoDiag
  /\ members = NoMembers
  /\ hook = NoHook
  /\ cmp \in {[state |-> "called", lhs |-> l, rhs |-> r] : l \in Keys, r \in Keys}

\* Compare(lhs, rhs), Compare(rhs, lhs) and Compare(lhs, lhs)
CompareKeys ==
  /\ cmp.state = "called"
  /\ \E res \in memcmp(cmp.lhs.prefix, cmp.rhs.prefix, SizeofIdxId),
        rev \in memcmp(cmp.rhs.prefix, cmp.lhs.prefix, SizeofIdxId),
        self \in memcmp(cmp.lhs.prefix, cmp.lhs.prefix, SizeofIdxId) :
       cmp' = [state |-> "compared",
               lhs |-> cmp.lhs,
               rhs |-> cmp.rhs,
               res |-> Compare(cmp.lhs, cmp.rhs, res),
               rev |-> Compare(cmp.rhs, cmp.lhs, rev),
               self |-> Compare(cmp.lhs, cmp.lhs, self)]
  /\ UNCHANGED <<scopes, stack, members, hook>>
  /\ UNCHANGED parseVars
  /\ UNCHANGED queryVars
  /\ UNCHANGED callVars

NextCompare == CompareKeys

SpecCompare == InitCompare /\ [][NextCompare]_vars

(***************************************************************************)
(* C1: the scanner set up at the start of parse() is destroyed exactly     *)
(* once on every exit path (grammar success, grammar failure, propagated   *)
(* exception): never before the grammar run has ended, once after it, and  *)
(* never twice.                                                            *)
(***************************************************************************)
C1_ScannerReleasedOnce ==
  /\ scannerInits <= 1
  /\ scannerDestroys <= scannerInits
  /\ pc \in {"created", "grammar", "destroy", "catch"} => scannerDestroys = 0
  /\ pc \in {"endscope", "assemble", "returned", "abort", "raised"} =>
       scannerInits = 1 /\ scannerDestroys = 1

\* an exception propagated out of the grammar run has left parse()
C1_Witness ==
  pc = "raised" /\ aqlparse = "throw" /\ scannerInits = 1 /\ scannerDestroys = 1

(***************************************************************************)
(* C2 as stated: after a parse() that returns a QueryResult no scope is    *)
(* active and the value stack is empty, and parse completion checks both   *)
(* conditions.                                                             *)
(***************************************************************************)
C2_Original ==
  pc = "returned" =>
    /\ numActive(scopes) = 0
    /\ stack = <<>>
    /\ asserted = {"numActive", "stackEmpty"}

(***************************************************************************)
(* C2 amended: after a parse() that returns a QueryResult no scope is      *)
(* active and the value stack is empty; parse completion asserts the scope *)
(* count only, the stack is not checked.                                   *)
(***************************************************************************)
C2_Amended ==
  pc = "returned" =>
    /\ numActive(scopes) = 0
    /\ stack = <<>>
    /\ asserted = {"numActive"}

\* a parse that recorded a write query has returned its result
C2_Witness ==
  pc = "returned" /\ result # NoResult /\ queryType # AQL_QUERY_READ

(***************************************************************************)
(* C3: a configureWriteQuery call made while the active scope is a         *)
(* subquery returns false, registers QUERY_MODIFY_IN_SUBQUERY and nothing  *)
(* else, and leaves the query type and the write collection as they were.  *)
(***************************************************************************)
C3_SubQueryRefused ==
  (lastCall.made /\ lastCall.inSubQuery) =>
    /\ lastCall.ret = FALSE
    /\ lastCall.registered = <<[code |-> TRI_ERROR_QUERY_MODIFY_IN_SUBQUERY, details |-> <<>>]>>
    /\ lastCall.typeAfter = lastCall.typeBefore
    /\ lastCall.writeAfter = lastCall.writeBefore
    /\ queryType = lastCall.typeBefore
    /\ writeCollection = lastCall.writeBefore

\* a write clause in a subquery of a READ query: the query stays READ
C3_Witness ==
  /\ lastCall.made
  /\ lastCall.inSubQuery
  /\ lastCall.typeBefore = AQL_QUERY_READ
  /\ queryType = AQL_QUERY_READ
  /\ ~lastCall.ret

(***************************************************************************)
(* C4: of two configureWriteQuery calls made outside a subquery the second *)
(* returns false and registers QUERY_MULTI_MODIFY, and the query type and  *)
(* the write collection remain those of the first call.                    *)
(***************************************************************************)
C4_SecondWriteRefused ==
  /\ nOutside >= 1 =>
       /\ queryType = firstWrite.type
       /\ writeCollection = firstWrite.collectionNode
  /\ (nOutside >= 2 /\ lastCall.made /\ ~lastCall.inSubQuery) =>
       /\ lastCall.ret = FALSE
       /\ lastCall.registered = <<[code |-> TRI_ERROR_QUERY_MULTI_MODIFY, details |-> <<>>]>>
       /\ lastCall.typeAfter = firstWrite.type
       /\ lastCall.writeAfter = firstWrite.collectionNode

\* the second call names another type and another collection than the first
C4_Witness ==
  /\ nOutside = 2
  /\ lastCall.made
  /\ ~lastCall.inSubQuery
  /\ lastCall.type # firstWrite.type
  /\ lastCall.collectionNode # firstWrite.collectionNode
  /\ ~lastCall.ret

(***************************************************************************)
(* C5: a configureWriteQuery(type, collection, options) call made outside  *)
(* a subquery while the query is READ returns true, and afterwards the     *)
(* query type is type and the write collection is collection, for every    *)
(* write type.                                                             *)
(***************************************************************************)
C5_FirstWriteRecorded ==
  (lastCall.made /\ ~lastCall.inSubQuery /\ lastCall.typeBefore = AQL_QUERY_READ) =>
    /\ lastCall.ret = TRUE
    /\ lastCall.typeAfter = lastCall.type
    /\ lastCall.writeAfter = lastCall.collectionNode
    /\ queryType = lastCall.type
    /\ writeCollection = lastCall.collectionNode

\* an UPSERT into d recorded on a READ query
C5_Witness ==
  /\ lastCall.made
  /\ ~lastCall.inSubQuery
  /\ lastCall.typeBefore = AQL_QUERY_READ
  /\ lastCall.type = "UPSERT"
  /\ lastCall.collectionNode = "d"
  /\ queryType = "UPSERT"
  /\ writeCollection = "d"

(***************************************************************************)
(* C6: when a call passes the subquery and multi-modify checks, an options *)
(* node that is present and not constant makes the call register           *)
(* QUERY_COMPILE_TIME_OPTIONS while it still returns true and sets type    *)
(* and write collection; an absent or constant options node registers      *)
(* nothing.                                                                *)
(***************************************************************************)
C6_OptionsErrorNotFatal ==
  (lastCall.made /\ ~lastCall.inSubQuery /\ lastCall.typeBefore = AQL_QUERY_READ) =>
    /\ lastCall.optionNode = "dynOptions" =>
         /\ lastCall.ret = TRUE
         /\ lastCall.typeAfter = lastCall.type
         /\ lastCall.writeAfter = lastCall.collectionNode
         /\ lastCall.registered =
              <<[code |-> TRI_ERROR_QUERY_COMPILE_TIME_OPTIONS, details |-> <<>>]>>
         /\ \E k \in 1..Len(errors) : errors[k].code = TRI_ERROR_QUERY_COMPILE_TIME_OPTIONS
    /\ lastCall.optionNode \in {Null, "constOptions"} => lastCall.registered = <<>>

\* a write clause with non-constant options was recorded and flagged
C6_Witness ==
  /\ lastCall.made
  /\ ~lastCall.inSubQuery
  /\ lastCall.typeBefore = AQL_QUERY_READ
  /\ lastCall.optionNode = "dynOptions"
  /\ lastCall.ret
  /\ queryType = lastCall.type
  /\ Len(errors) = 1
  /\ errors[1].code = TRI_ERROR_QUERY_COMPILE_TIME_OPTIONS

(***************************************************************************)
(* C7: over any sequence of configureWriteQuery calls and scope starts and *)
(* ends, a call that returns true finds the query READ and leaves it a     *)
(* write query; once the query type is a write type it never changes, once *)
(* the write collection is set it never changes, and no step taken while   *)
(* the active scope is a subquery changes either. So at most one call      *)
(* succeeds.                                                               *)
(***************************************************************************)
C7_AtMostOneWrite ==
  [][/\ (nCalls' # nCalls /\ lastCall'.ret) =>
          (queryType = AQL_QUERY_READ /\ writeCollection = Null /\ queryType' \in WriteTypes)
     /\ queryType # AQL_QUERY_READ => queryType' = queryType
     /\ writeCollection # Null => writeCollection' = writeCollection
     /\ (queryType' # queryType \/ writeCollection' # writeCollection) =>
          (nCalls' # nCalls /\ lastCall'.ret)
     /\ isInSubQuery(scopes) => (queryType' = queryType /\ writeCollection' = writeCollection)]_vars

\* a second call was refused after the one that succeeded
C7_Witness ==
  /\ nCalls = 2
  /\ nOutside = 2
  /\ queryType # AQL_QUERY_READ
  /\ lastCall.made
  /\ ~lastCall.ret

(***************************************************************************)
(* C8: when the grammar run reports failure, parse() raises QUERY_PARSE    *)
(* and produces no QueryResult: collection names, bind parameters and the  *)
(* serialized AST are never read, and the scanner has been destroyed when  *)
(* the error leaves parse().                                               *)
(***************************************************************************)
C8_FailureRaisesNoResult ==
  aqlparse = "fail" =>
    /\ pc \in {"catch", "raised"}
    /\ exception = TRI_ERROR_QUERY_PARSE
    /\ result = NoResult
    /\ reads = {}
    /\ pc = "raised" => scannerDestroys = 1

\* the parse error has left parse()
C8_Witness ==
  /\ aqlparse = "fail"
  /\ pc = "raised"
  /\ exception = TRI_ERROR_QUERY_PARSE
  /\ scannerDestroys = 1
  /\ result = NoResult

(***************************************************************************)
(* Reading a diagnostic back: the position fields of a buffer.             *)
(***************************************************************************)
DigitValue(ch) == CHOOSE d \in 0..9 : DigitChars[d + 1] = ch

RECURSIVE ParseInt(_)
ParseInt(digits) ==
  IF digits = <<>> THEN 0
  ELSE 10 * ParseInt(SubSeq(digits, 1, Len(digits) - 1)) + DigitValue(digits[Len(digits)])

\* the buffer from the position fields on: what follows "<data> near '<region>' at position "
AfterPrefix(d) ==
  Drop(d.buffer, Len(d.data) + Len(NearText) + Len(d.region) + Len(AtPositionText))

Colons(text) == {i \in 1..Len(text) : text[i] = ":"}

\* both position fields are in the buffer, each with the colon that ends it
PositionShown(d) == Cardinality(Colons(AfterPrefix(d))) >= 2

FirstColon(text) == CHOOSE i \in Colons(text) : \A j \in Colons(text) : i <= j

SecondColon(text) ==
  CHOOSE i \in Colons(text) \ {FirstColon(text)} :
    \A j \in Colons(text) \ {FirstColon(text)} : i <= j

ShownLine(d) ==
  LET text == AfterPrefix(d) IN ParseInt(SubSeq(text, 1, FirstColon(text) - 1))

ShownColumn(d) ==
  LET text == AfterPrefix(d)
  IN ParseInt(SubSeq(text, FirstColon(text) + 1, SecondColon(text) - 1))

\* the number of characters of the whole diagnostic, before it is cut to the buffer
DiagnosticLength(d) ==
  Len(d.data) + Len(NearText) + Len(d.region) + Len(AtPositionText)
    + Len(FormatInt(d.line)) + 1 + Len(FormatInt(d.column + 1)) + 2
    + Len(d.queryString) + 1 + Len(d.arrowpointer) + 1

(***************************************************************************)
(* C9 as stated: for every column c >= 0 the caret line of the diagnostic  *)
(* is c spaces followed by a two-character marker.                         *)
(***************************************************************************)
C9_Original ==
  diag.state = "registered" =>
    diag.arrowpointer = Fill(" ", diag.column) \o <<"^", "^">>

(***************************************************************************)
(* C9 amended: for column 0 the caret line is the two-character marker     *)
(* "^^"; for a column c >= 1 it is c - 1 spaces followed by the            *)
(* three-character marker "^^^", whose middle character is under the       *)
(* failure column. The diagnostic ends with the query text, a line end,    *)
(* that caret line and a line end when the whole text fits the buffer      *)
(* (sizeof(buffer) - 1 characters); a longer text is cut at that length.   *)
(***************************************************************************)
C9_Amended ==
  diag.state = "registered" =>
    /\ diag.column = 0 => diag.arrowpointer = <<"^", "^">>
    /\ diag.column >= 1 =>
         /\ diag.arrowpointer = Fill(" ", diag.column - 1) \o <<"^", "^", "^">>
         /\ diag.arrowpointer[diag.column + 1] = "^"
    /\ DiagnosticLength(diag) <= SizeofBuffer - 1 =>
         /\ Len(diag.buffer) = DiagnosticLength(diag)
         /\ SubSeq(diag.buffer,
                   Len(diag.buffer) - Len(diag.arrowpointer) - Len(diag.queryString) - 1,
                   Len(diag.buffer))
              = diag.queryString \o <<"\n">> \o diag.arrowpointer \o <<"\n">>
    /\ DiagnosticLength(diag) > SizeofBuffer - 1 => Len(diag.buffer) = SizeofBuffer - 1
    /\ errors = <<[code |-> TRI_ERROR_QUERY_PARSE, details |-> diag.buffer]>>

\* the truncated query FOR x IN, error at its end: the caret line is whole in the diagnostic
C9_Witness ==
  /\ diag.state = "registered"
  /\ diag.queryString = <<"F", "O", "R", " ", "x", " ", "I", "N">>
  /\ diag.column = 8
  /\ diag.arrowpointer = Fill(" ", 7) \o <<"^", "^", "^">>
  /\ Len(diag.buffer) < SizeofBuffer - 1
  /\ Len(errors) = 1

HookCalled(op) == hook'.tick # hook.tick /\ hook'.op = op

(***************************************************************************)
(* C11: the value stack is last-in first-out. pushStack puts its value on  *)
(* top of the entries already there; popStack returns the top entry, the   *)
(* most recently pushed value not yet popped, and removes exactly that     *)
(* entry; peekStack returns the same value and removes nothing. popStack   *)
(* or peekStack on an empty stack fails its assertion: the program ends    *)
(* and no value is returned.                                               *)
(***************************************************************************)
C11_StackIsLifo ==
  [][/\ HookCalled("pushStack") => (stack' = stack \o <<hook'.arg>> /\ pc' = pc)
     /\ HookCalled("popStack") =>
          IF stack # <<>>
          THEN stack = stack' \o <<hook'.ret>> /\ pc' = pc
          ELSE pc' = "abort" /\ hook'.ret = Null /\ stack' = stack
     /\ HookCalled("peekStack") =>
          IF stack # <<>>
          THEN hook'.ret = stack[Len(stack)] /\ stack' = stack /\ pc' = pc
          ELSE pc' = "abort" /\ hook'.ret = Null /\ stack' = stack
     /\ pc = "abort" => pc' = "abort" /\ hook' = hook /\ stack' = stack]_vars

\* list1 then array1 were pushed: popStack returned array1 and left list1
C11_Witness ==
  /\ hook.op = "popStack"
  /\ hook.ret = "array1"
  /\ stack = <<"list1">>
  /\ pc = "grammar"

(***************************************************************************)
(* C12: pushList fails its assertion unless the stack top is a list node   *)
(* (or when the stack is empty); otherwise it adds the given node after    *)
(* the members the top list already has and changes no other node, so the  *)
(* members of an open list are in the order of the calls.                  *)
(***************************************************************************)
C12_PushListAppends ==
  [][HookCalled("pushList") =>
       IF stack # <<>> /\ NodeType(stack[Len(stack)]) = NODE_TYPE_LIST
       THEN /\ pc' = pc
            /\ members'[stack[Len(stack)]] = members[stack[Len(stack)]] \o <<hook'.arg>>
            /\ \A n \in AstNodes \ {stack[Len(stack)]} : members'[n] = members[n]
       ELSE /\ pc' = "abort"
            /\ members' = members]_vars

\* b then a were given to the open list
C12_Witness ==
  /\ hook.op = "pushList"
  /\ hook.arg = "a"
  /\ stack # <<>>
  /\ stack[Len(stack)] = "list1"
  /\ members["list1"] = <<"b", "a">>
  /\ pc = "grammar"

(***************************************************************************)
(* C13: pushArray fails its assertion unless the stack top is an array     *)
(* node; otherwise each call adds one new named element after the members  *)
(* the top array already has, also when an element of that name is already *)
(* there, and changes no other node: n calls add n members.                *)
(***************************************************************************)
C13_PushArrayKeepsDuplicates ==
  [][HookCalled("pushArray") =>
       IF stack # <<>> /\ NodeType(stack[Len(stack)]) = NODE_TYPE_ARRAY
       THEN /\ pc' = pc
            /\ Len(members'[stack[Len(stack)]]) = Len(members[stack[Len(stack)]]) + 1
            /\ members'[stack[Len(stack)]] =
                 members[stack[Len(stack)]]
                   \o <<[type |-> NODE_TYPE_ARRAY_ELEMENT,
                         name |-> hook'.arg[1], value |-> hook'.arg[2]]>>
            /\ \A n \in AstNodes \ {stack[Len(stack)]} : members'[n] = members[n]
       ELSE /\ pc' = "abort"
            /\ members' = members]_vars

\* two calls with the same attribute name left two elements
C13_Witness ==
  /\ hook.op = "pushArray"
  /\ stack # <<>>
  /\ stack[Len(stack)] = "array1"
  /\ Len(members["array1"]) = 2
  /\ members["array1"][1].name = "k"
  /\ members["array1"][2].name = "k"
  /\ members["array1"][1].value = "a"
  /\ members["array1"][2].value = "b"
  /\ pc = "grammar"

(***************************************************************************)
(* C14: an error registered by configureWriteQuery does not end the parse: *)
(* after every call, refused or flagged or not, the grammar run goes on    *)
(* with no exception raised, and parse() can still return a QueryResult    *)
(* while the error sink is not empty.                                      *)
(***************************************************************************)
C14_SemanticErrorNotTerminal ==
  [][nCalls' # nCalls =>
       /\ pc = "grammar"
       /\ pc' = "grammar"
       /\ aqlparse' = "pending"
       /\ exception' = Null
       /\ result' = NoResult]_vars

\* parse() returned a QueryResult after a refused and a flagged write clause
C14_Witness ==
  /\ pc = "returned"
  /\ result # NoResult
  /\ Len(errors) = 2
  /\ \E k \in 1..2 : errors[k].code = TRI_ERROR_QUERY_COMPILE_TIME_OPTIONS
  /\ \E k \in 1..2 : errors[k].code \in {TRI_ERROR_QUERY_MODIFY_IN_SUBQUERY,
                                         TRI_ERROR_QUERY_MULTI_MODIFY}

(***************************************************************************)
(* C15: the validator applies its rules in order and a call that returns   *)
(* false registers exactly one error: QUERY_MODIFY_IN_SUBQUERY when the    *)
(* active scope is a subquery, also when the query is already a write      *)
(* query, QUERY_MULTI_MODIFY otherwise; never QUERY_COMPILE_TIME_OPTIONS,  *)
(* whatever its options node.                                              *)
(***************************************************************************)
C15_RulesInOrder ==
  (lastCall.made /\ ~lastCall.ret) =>
    /\ Len(lastCall.registered) = 1
    /\ Len(errors) >= 1
    /\ lastCall.registered[1].code =
         IF lastCall.inSubQuery THEN TRI_ERROR_QUERY_MODIFY_IN_SUBQUERY
         ELSE TRI_ERROR_QUERY_MULTI_MODIFY
    /\ ~lastCall.inSubQuery => lastCall.typeBefore # AQL_QUERY_READ
    /\ \A k \in 1..Len(lastCall.registered) :
         lastCall.registered[k].code # TRI_ERROR_QUERY_COMPILE_TIME_OPTIONS

\* a write clause with non-constant options in a subquery of a query that is already a write query
C15_Witness ==
  /\ lastCall.made
  /\ lastCall.inSubQuery
  /\ lastCall.typeBefore # AQL_QUERY_READ
  /\ lastCall.optionNode = "dynOptions"
  /\ ~lastCall.ret
  /\ lastCall.registered = <<[code |-> TRI_ERROR_QUERY_MODIFY_IN_SUBQUERY, details |-> <<>>]>>

(***************************************************************************)
(* C17: parse() ends the main scope only on the success path. The handler  *)
(* that rethrows ends no scope, so when an error leaves parse() the main   *)
(* scope started at the start of parse() is still active.                  *)
(***************************************************************************)
C17_MainScopeOpenOnRaise ==
  [][/\ pc = "catch" => scopes' = scopes
     /\ pc' = "raised" => (numActive(scopes') >= 1 /\ scopes'[1] = AQL_SCOPE_MAIN)
     /\ (numActive(scopes) >= 1 /\ numActive(scopes') = 0) =>
          (pc = "endscope" /\ aqlparse = "ok")]_vars

\* the grammar failed inside a subquery: both scopes are still active after the raise
C17_Witness ==
  /\ pc = "raised"
  /\ aqlparse = "fail"
  /\ scopes = <<AQL_SCOPE_MAIN, AQL_SCOPE_SUBQUERY>>

(***************************************************************************)
(* C16: only pushStack and popStack change the value stack. peekStack,     *)
(* pushList, pushArray, configureWriteQuery and registerParseError leave   *)
(* its depth and its entries as they were.                                 *)
(***************************************************************************)
C16_OnlyPushPopChangeStack ==
  [][/\ (\/ HookCalled("peekStack")
         \/ HookCalled("pushList")
         \/ HookCalled("pushArray")
         \/ nCalls' # nCalls
         \/ diag'.state # diag.state) => (Len(stack') = Len(stack) /\ stack' = stack)
     /\ stack' # stack => (HookCalled("pushStack") \/ HookCalled("popStack"))]_vars

\* pushList added a member to the list on top of a stack of two entries
C16_Witness ==
  /\ hook.op = "pushList"
  /\ stack = <<"array1", "list1">>
  /\ Len(members["list1"]) = 1
  /\ pc = "grammar"

Sign(x) == IF x < 0 THEN 0 - 1 ELSE IF x > 0 THEN 1 ELSE 0

(***************************************************************************)
(* C18: Compare orders keys by the index id first and by the key array     *)
(* only on ties. If the index ids differ, the result has the sign of the   *)
(* comparison of their first differing bytes, whatever the arrays are. If  *)
(* they are equal, the result is the comparison of the first elements that *)
(* differ within the common length; if none differ, the shorter array is   *)
(* smaller (-1 / 1) and arrays of equal length compare 0.                  *)
(***************************************************************************)
C18_CompareOrder ==
  cmp.state = "compared" =>
    LET l == cmp.lhs
        r == cmp.rhs
        bytes == Differing(l.prefix, r.prefix, SizeofIdxId)
        common == IF Len(l.array) < Len(r.array) THEN Len(l.array) ELSE Len(r.array)
        elements == {i \in 1..common : l.array[i] # r.array[i]}
    IN IF bytes # {}
       THEN /\ cmp.res # 0
            /\ cmp.res < 0 <=> l.prefix[Lowest(bytes)] < r.prefix[Lowest(bytes)]
       ELSE IF elements # {}
            THEN cmp.res = (IF l.array[Lowest(elements)] < r.array[Lowest(elements)]
                            THEN 0 - 1 ELSE 1)
            ELSE IF Len(l.array) < Len(r.array) THEN cmp.res = 0 - 1
                 ELSE IF Len(l.array) > Len(r.array) THEN cmp.res = 1
                 ELSE cmp.res = 0

\* the index id decides against the arrays: a smaller id with a larger array
C18_Witness ==
  /\ cmp.state = "compared"
  /\ cmp.lhs.prefix[SizeofIdxId] = 0
  /\ cmp.rhs.prefix[SizeofIdxId] = 200
  /\ cmp.lhs.array = <<1, 1>>
  /\ cmp.rhs.array = <<0>>
  /\ cmp.res < 0

(***************************************************************************)
(* C19: Compare is reflexive and antisymmetric: Compare(a, a) = 0 and the  *)
(* sign of Compare(a, b) is the negation of the sign of Compare(b, a), for *)
(* all keys a and b.                                                       *)
(***************************************************************************)
C19_CompareAntisymmetric ==
  cmp.state = "compared" =>
    /\ cmp.self = 0
    /\ Sign(cmp.res) = 0 - Sign(cmp.rev)

\* equal index ids, equal common elements, arrays of different lengths
C19_Witness ==
  /\ cmp.state = "compared"
  /\ cmp.lhs.prefix = cmp.rhs.prefix
  /\ cmp.lhs.array = <<1>>
  /\ cmp.rhs.array = <<1, 0>>
  /\ cmp.res = 0 - 1
  /\ cmp.rev = 1
  /\ cmp.self = 0

====
